---------------------------- MODULE Spec2Model ----------------------------
(***************************************************************************)
(* Model of workshop/training/training.py: the MLPTuner training run.      *)
(*                                                                         *)
(* The run is the script's __main__ block: construct MLPTuner, load the    *)
(* data, build the model, train (epoch loop, batch loop, evaluation with   *)
(* best-model checkpointing after every epoch) and evaluate once more.     *)
(*                                                                         *)
(* Abstractions:                                                           *)
(*  - the learnable parameters are a version number: the initial           *)
(*    parameters are version 0 and every optimizer.step() produces the     *)
(*    next version;                                                        *)
(*  - the forward pass is opaque: how many evaluation samples a given      *)
(*    parameter version classifies correctly is a free choice;             *)
(*  - an accuracy is the exact rational 100*correct/total, kept as a       *)
(*    numerator/denominator pair and compared by cross-multiplication;     *)
(*  - an exception that nothing catches ends the run in pc = "aborted".    *)
(***************************************************************************)
EXTENDS Integers, Sequences, FiniteSets

\* ---------------------------------------------------------------- bounds
MaxEpochs == 5          \* num_train_epochs ranges over 0..MaxEpochs
MaxBatches == 2         \* len(train_loader) ranges over 1..MaxBatches
MaxLoggingSteps == 2    \* logging_steps ranges over 0..MaxLoggingSteps

\* Sizes of the evaluation set the data loading can produce (0: empty slice).
EvalSizes == {0, 2, 20}

\* Numbers of correctly classified evaluation samples the opaque forward
\* pass can produce on an evaluation set of the given size.
CorrectCounts(total) == IF total <= 2 THEN 0..total ELSE {11, 12, 13, 14}

\* ------------------------------------------------------------ the state
VARIABLES
    pc,                \* position of the script
    num_train_epochs,  \* TrainingParams.num_train_epochs
    logging_steps,     \* TrainingParams.logging_steps
    len_train_loader,  \* number of batches of train_loader
    test_total,        \* number of samples of test_loader
    model,             \* version of the learnable parameters
    training,          \* model.training (train mode / eval mode)
    best_accuracy,     \* self.best_accuracy
    epoch,             \* iterations of the epoch loop started so far
    i,                 \* batches of the current epoch already processed
    ckpt,              \* the files under output_dir
    error,             \* the exception that ended the run, or "none"
    steps,             \* history: optimizer.step() calls so far
    logs,              \* history: progress messages of the batch loop
    evalLog,           \* history: one entry per accuracy computed
    saveLog            \* history: one entry per save_model call

vars == <<pc, num_train_epochs, logging_steps, len_train_loader, test_total,
          model, training, best_accuracy, epoch, i, ckpt, error, steps,
          logs, evalLog, saveLog>>

\* --------------------------------------------------------- pure helpers
\* accuracy = 100 * correct / total, as an exact rational (total > 0)
Accuracy(correct, total) == [num |-> 100 * correct, den |-> total]

\* a > b and a >= b on rationals with positive denominators
Gt(a, b) == a.num * b.den > b.num * a.den
Geq(a, b) == a.num * b.den >= b.num * a.den
SameValue(a, b) == a.num * b.den = b.num * a.den

Zero == [num |-> 0, den |-> 1]

NoFile == -1
EmptyDir == [model |-> NoFile, config |-> FALSE, vectorizer |-> FALSE]

\* Outcomes of save_model: success, or an I/O failure in one of its writes.
SaveOutcomes == {"ok", "fail_model", "fail_config", "fail_vectorizer"}

\* "if save_best_model and accuracy > self.best_accuracy"
ShouldSave_Tie(save_best_model, accuracy, best) ==
    save_best_model /\ Geq(accuracy, best)
ShouldSave_Always(save_best_model, accuracy, best) ==
    save_best_model
ShouldSave_NoFlag(save_best_model, accuracy, best) ==
    Gt(accuracy, best)
ShouldSave(save_best_model, accuracy, best) ==
    save_best_model /\ Gt(accuracy, best)

\* The evaluation loop under torch.no_grad(): forward passes only, the
\* parameters that come out are the parameters that went in.
NoGradForward_Step(p) == p + 1
NoGradForward(p) == p

\* optimizer.step(): the next parameter version
OptimizerStep(p) == p + 1

\* "for epoch in range(num_train_epochs)": is there another iteration after
\* `started` iterations have been started?
EpochLoopContinues_OffByOne(started, n) == started <= n
EpochLoopContinues(started, n) == started < n

\* "for i, batch in enumerate(train_loader)": is there another batch after
\* `done` batches of this epoch?
BatchLoopContinues_Short(done, n) == done < n - 1
BatchLoopContinues(done, n) == done < n

\* "(i + 1) % logging_steps == 0" for logging_steps # 0
LogDue(idx, every) == (idx + 1) % every = 0

\* The files after save_model ran on directory d with parameters p: the
\* three writes happen in order and a failing write ends the call.
SaveModel(outcome, d, p) ==
    CASE outcome = "fail_model" -> d
      [] outcome = "fail_config" -> [d EXCEPT !.model = p]
      [] outcome = "fail_vectorizer" -> [d EXCEPT !.model = p, !.config = TRUE]
      [] OTHER -> [model |-> p, config |-> TRUE, vectorizer |-> TRUE]

\* Where control goes after save_model: it returns to evaluate's caller, or
\* its exception leaves evaluate and train uncaught.
AfterSave_Swallow(outcome, ret) == ret
AfterSave(outcome, ret) == IF outcome = "ok" THEN ret ELSE "aborted"

\* ----------------------------------------------------------------- Init
\* MLPTuner(params): the state after construction.
Init ==
    /\ pc = "uninitialized"
    /\ num_train_epochs \in 0..MaxEpochs
    /\ logging_steps \in 0..MaxLoggingSteps
    /\ len_train_loader = 0
    /\ test_total = 0
    /\ model = 0
    /\ training = FALSE
    /\ best_accuracy = Zero
    /\ epoch = 0
    /\ i = 0
    /\ ckpt = EmptyDir
    /\ error = "none"
    /\ steps = 0
    /\ logs = 0
    /\ evalLog = <<>>
    /\ saveLog = <<>>

\* -------------------------------------------------------------- actions
\* load_data_and_vectorizer: the batch sources are established.
LoadData ==
    /\ pc = "uninitialized"
    /\ \E nb \in 1..MaxBatches : len_train_loader' = nb
    /\ \E ts \in EvalSizes : test_total' = ts
    /\ pc' = "data_ready"
    /\ UNCHANGED <<num_train_epochs, logging_steps, model, training,
                   best_accuracy, epoch, i, ckpt, error, steps, logs,
                   evalLog, saveLog>>

\* build_model: a fresh module is in training mode.
BuildModel ==
    /\ pc = "data_ready"
    /\ model' = 0
    /\ training' = TRUE
    /\ pc' = "model_ready"
    /\ UNCHANGED <<num_train_epochs, logging_steps, len_train_loader,
                   test_total, best_accuracy, epoch, i, ckpt, error, steps,
                   logs, evalLog, saveLog>>

\* train(), up to the epoch loop: self.model.train()
TrainStart ==
    /\ pc = "model_ready"
    /\ training' = TRUE
    /\ pc' = "epoch"
    /\ UNCHANGED <<num_train_epochs, logging_steps, len_train_loader,
                   test_total, model, best_accuracy, epoch, i, ckpt, error,
                   steps, logs, evalLog, saveLog>>

\* head of "for epoch in range(num_train_epochs)"
ForEpoch ==
    /\ pc = "epoch"
    /\ IF EpochLoopContinues(epoch, num_train_epochs)
         THEN /\ epoch' = epoch + 1
              /\ i' = 0
              /\ pc' = "batch"
         ELSE /\ pc' = "trained"
              /\ UNCHANGED <<epoch, i>>
    /\ UNCHANGED <<num_train_epochs, logging_steps, len_train_loader,
                   test_total, model, training, best_accuracy, ckpt, error,
                   steps, logs, evalLog, saveLog>>

\* one iteration of the batch loop: zero_grad, forward, loss, backward,
\* optimizer.step, then the logging test
TrainBatch ==
    /\ pc = "batch"
    /\ BatchLoopContinues(i, len_train_loader)
    /\ model' = OptimizerStep(model)
    /\ steps' = steps + 1
    /\ IF logging_steps = 0
         THEN \* (i + 1) % 0 raises ZeroDivisionError
              /\ pc' = "aborted"
              /\ error' = "ZeroDivisionError:logging"
              /\ i' = i
              /\ logs' = logs
         ELSE /\ pc' = "batch"
              /\ error' = error
              /\ i' = i + 1
              /\ logs' = IF LogDue(i, logging_steps) THEN logs + 1 ELSE logs
    /\ UNCHANGED <<num_train_epochs, logging_steps, len_train_loader,
                   test_total, training, best_accuracy, epoch, ckpt,
                   evalLog, saveLog>>

\* evaluate(save_best_model); `ret` is where its caller continues
Evaluate(save_best_model, ret) ==
    /\ training' = FALSE
    /\ model' = NoGradForward(model)
    /\ IF test_total = 0
         THEN \* 100 * correct / total raises ZeroDivisionError
              /\ pc' = "aborted"
              /\ error' = "ZeroDivisionError:evaluate"
              /\ UNCHANGED <<best_accuracy, ckpt, evalLog, saveLog>>
         ELSE \E correct \in CorrectCounts(test_total) :
              LET accuracy == Accuracy(correct, test_total)
                  entry == [epoch |-> epoch,
                            save_best_model |-> save_best_model,
                            correct |-> correct,
                            total |-> test_total,
                            accuracy |-> accuracy,
                            best_before |-> best_accuracy,
                            model |-> model,
                            steps |-> steps]
              IN  /\ evalLog' = Append(evalLog, entry)
                  /\ IF ShouldSave(save_best_model, accuracy, best_accuracy)
                       THEN /\ best_accuracy' = accuracy
                            /\ saveLog' = Append(saveLog,
                                             [epoch |-> epoch,
                                              best_accuracy |-> accuracy,
                                              model |-> model])
                            /\ \E outcome \in SaveOutcomes :
                                 /\ ckpt' = SaveModel(outcome, ckpt, model)
                                 /\ pc' = AfterSave(outcome, ret)
                                 /\ error' = IF outcome = "ok"
                                               THEN error ELSE "IOError"
                       ELSE /\ pc' = ret
                            /\ UNCHANGED <<best_accuracy, ckpt, saveLog,
                                           error>>
    /\ UNCHANGED <<num_train_epochs, logging_steps, len_train_loader,
                   test_total, epoch, i, steps, logs>>

\* end of an epoch: accuracy = self.evaluate(save_best_model=True)
EvaluateEpoch ==
    /\ pc = "batch"
    /\ ~BatchLoopContinues(i, len_train_loader)
    /\ Evaluate(TRUE, "epoch")

\* __main__ after train(): mlp_tuner.evaluate()
EvaluateFinal ==
    /\ pc = "trained"
    /\ Evaluate(FALSE, "done")

Next ==
    \/ LoadData
    \/ BuildModel
    \/ TrainStart
    \/ ForEpoch
    \/ TrainBatch
    \/ EvaluateEpoch
    \/ EvaluateFinal

Spec == Init /\ [][Next]_vars

\* The script is one sequential thread: a step that can run does run.
FairSpec == Spec /\ WF_vars(Next)

\* ------------------------------------------------- history projections
Last(seq) == seq[Len(seq)]

\* the entries of evalLog written by the evaluations inside train()
TrainEvals == SelectSeq(evalLog, LAMBDA e : e.save_best_model)

\* was save_model called by the evaluation that ended epoch e?
SavedAfter(e) == \E s \in 1..Len(saveLog) : saveLog[s].epoch = e

Percent(n) == [num |-> n, den |-> 1]

\* ------------------------------------------------------------------- C1
\* C1: inside train, save_model is called after an epoch if and only if
\* that epoch's accuracy is strictly greater than the best accuracy stored
\* before that epoch's evaluation (0 at first); a tie writes nothing.
C1_SaveIffStrictlyBetter ==
    /\ \A k \in 1..Len(TrainEvals) :
          /\ SavedAfter(TrainEvals[k].epoch)
               <=> Gt(TrainEvals[k].accuracy, TrainEvals[k].best_before)
          /\ SameValue(TrainEvals[k].accuracy, TrainEvals[k].best_before)
               => ~SavedAfter(TrainEvals[k].epoch)
    /\ Len(TrainEvals) >= 1 => TrainEvals[1].best_before = Zero

\* the run with accuracies 60, 55, 70, 70, 65 wrote after epochs 1 and 3
C1_Witness ==
    /\ pc = "done"
    /\ Len(TrainEvals) = 5
    /\ SameValue(TrainEvals[1].accuracy, Percent(60))
    /\ SameValue(TrainEvals[2].accuracy, Percent(55))
    /\ SameValue(TrainEvals[3].accuracy, Percent(70))
    /\ SameValue(TrainEvals[4].accuracy, Percent(70))
    /\ SameValue(TrainEvals[5].accuracy, Percent(65))
    /\ Len(saveLog) = 2
    /\ saveLog[1].epoch = 1
    /\ saveLog[2].epoch = 3

\* ------------------------------------------------------------------- C2
\* C2: the accuracy recorded at each save_model call never decreases from
\* one call to the next, and no step lowers best_accuracy.
C2_BestNeverDecreases ==
    /\ [](\A s \in 1..Len(saveLog) : \A t \in s..Len(saveLog) :
             Geq(saveLog[t].best_accuracy, saveLog[s].best_accuracy))
    /\ [](Len(saveLog) >= 1 => best_accuracy = Last(saveLog).best_accuracy)
    /\ [][Geq(best_accuracy', best_accuracy)]_vars

\* two overwrites happened and a later epoch evaluated below the stored best
C2_Witness ==
    /\ Len(saveLog) >= 2
    /\ Len(evalLog) >= 3
    /\ Last(evalLog).save_best_model
    /\ Gt(best_accuracy, Last(evalLog).accuracy)

\* ------------------------------------------------------------------- C3
\* C3: the k-th evaluation of train ends epoch k and runs after exactly
\* k * len(train_loader) parameter updates (all batches of epochs 1..k, one
\* update each); while a batch loop is running, exactly the evaluations of
\* the earlier epochs have happened.
C3_EvaluateOncePerEpochAfterAllBatches ==
    /\ \A k \in 1..Len(TrainEvals) :
          /\ TrainEvals[k].epoch = k
          /\ TrainEvals[k].steps = k * len_train_loader
          /\ TrainEvals[k].model = k * len_train_loader
    /\ pc = "batch" =>
          /\ Len(TrainEvals) = epoch - 1
          /\ steps = (epoch - 1) * len_train_loader + i
          /\ i <= len_train_loader
    /\ pc \in {"epoch", "trained", "done"} => Len(TrainEvals) = epoch
    /\ model = steps

C3_Witness ==
    /\ pc = "done"
    /\ len_train_loader = MaxBatches
    /\ num_train_epochs >= 2
    /\ Len(TrainEvals) = num_train_epochs

\* ------------------------------------------------------------------- C4
\* C4: a step of evaluate, with either value of save_best_model, leaves the
\* parameters as they were; the parameters change only in a batch step of
\* train.
C4_EvaluateKeepsParameters ==
    /\ [][(pc = "trained"
            \/ (pc = "batch" /\ ~BatchLoopContinues(i, len_train_loader)))
          => model' = model]_vars
    /\ [][model' # model
          => (pc = "batch" /\ BatchLoopContinues(i, len_train_loader)
              /\ steps' = steps + 1)]_vars

\* evaluations with both values of the flag have run on trained parameters
C4_Witness ==
    /\ pc = "done"
    /\ model > 0
    /\ Len(TrainEvals) >= 1
    /\ ~Last(evalLog).save_best_model
    /\ Last(evalLog).model = model

\* ------------------------------------------------------------------- C5
\* C5: every call of evaluate, also on an empty evaluation set, yields an
\* accuracy in [0, 100] equal to 100 * correct / total.
C5_AccuracyAlwaysInRange ==
    /\ error # "ZeroDivisionError:evaluate"
    /\ \A k \in 1..Len(evalLog) :
          /\ Geq(evalLog[k].accuracy, Zero)
          /\ Geq(Percent(100), evalLog[k].accuracy)
          /\ evalLog[k].accuracy.num = 100 * evalLog[k].correct
          /\ evalLog[k].accuracy.den = evalLog[k].total

\* ------------------------------------------------------------------- C6
\* C6: whatever logging_steps is (0 included), the logging statement does
\* not change the control flow: a batch step hands control to the next
\* iteration of the batch loop and no run is ended by the logging test.
C6_LoggingDoesNotAffectControlFlow ==
    [][(pc = "batch" /\ steps' = steps + 1)
       => (pc' = "batch" /\ i' = i + 1 /\ error' = "none")]_vars

\* ------------------------------------------------------------------- C7
\* C7: once save_model failed the run is aborted at once: the failing call
\* is the last event of the run (no batch, evaluation or save_model call
\* after it), nothing changes any more and Done is never reached.
C7_SaveFailureAborts ==
    /\ [](error = "IOError" =>
             /\ pc = "aborted"
             /\ Len(saveLog) >= 1 /\ Len(evalLog) >= 1
             /\ Last(saveLog).epoch = Last(evalLog).epoch
             /\ Last(saveLog).model = model
             /\ Last(evalLog).steps = steps
             /\ Last(evalLog).save_best_model
             /\ epoch = Len(TrainEvals))
    /\ [][error = "IOError" => UNCHANGED vars]_vars

\* the second save_model call failed after it had written the parameters,
\* with epochs still to run
C7_Witness ==
    /\ error = "IOError"
    /\ epoch < num_train_epochs
    /\ Len(saveLog) >= 2
    /\ ckpt.model = model
    /\ ckpt.config

\* ------------------------------------------------------------------- C8
\* C8: every run ends, in Done unless an exception ended it; a run in Done
\* ran exactly num_train_epochs epochs, each followed by one evaluation,
\* then one final evaluation; the epoch loop never starts an iteration
\* beyond num_train_epochs.
C8_Terminates ==
    /\ <>(pc = "done" \/ error # "none")
    /\ [](pc = "done" =>
             /\ error = "none"
             /\ epoch = num_train_epochs
             /\ Len(TrainEvals) = num_train_epochs
             /\ Len(evalLog) = num_train_epochs + 1
             /\ ~Last(evalLog).save_best_model
             /\ steps = num_train_epochs * len_train_loader)
    /\ [](epoch <= num_train_epochs)
    /\ [][pc = "done" => UNCHANGED vars]_vars

C8_Witness ==
    /\ pc = "done"
    /\ num_train_epochs = MaxEpochs
    /\ len_train_loader = MaxBatches

\* ------------------------------------------------------------------- C9
\* C9: every optimizer.step() of train runs with the model in training
\* mode, in every epoch.
C9_StepsInTrainingMode ==
    [][steps' = steps + 1 => training]_vars

\* ------------------------------------------------------------------ C10
\* the accuracies of the epochs of train
IsBestOfRun(b) ==
    /\ \A k \in 1..Len(TrainEvals) : Geq(b, TrainEvals[k].accuracy)
    /\ \/ b = Zero
       \/ \E k \in 1..Len(TrainEvals) : b = TrainEvals[k].accuracy

\* the first epoch whose accuracy is b
EarliestEpochWith(b) ==
    CHOOSE k \in 1..Len(TrainEvals) :
        /\ SameValue(TrainEvals[k].accuracy, b)
        /\ \A j \in 1..(k - 1) : ~SameValue(TrainEvals[j].accuracy, b)

\* C10: in Done, best_accuracy is the maximum of 0 and the epochs'
\* accuracies; if it is above 0 the checkpoint is complete and holds the
\* parameters of the earliest epoch that attained it, and otherwise no
\* checkpoint was written; the final evaluation changes neither.
C10_FinalBestAndCheckpoint ==
    /\ [](pc = "done" =>
             /\ IsBestOfRun(best_accuracy)
             /\ Gt(best_accuracy, Zero) =>
                   /\ ckpt = [model |->
                                EarliestEpochWith(best_accuracy)
                                  * len_train_loader,
                              config |-> TRUE, vectorizer |-> TRUE]
                   /\ Last(saveLog).epoch = EarliestEpochWith(best_accuracy)
             /\ ~Gt(best_accuracy, Zero) =>
                   (ckpt = EmptyDir /\ saveLog = <<>>))
    /\ [][pc = "trained" =>
             (best_accuracy' = best_accuracy /\ ckpt' = ckpt
              /\ saveLog' = saveLog)]_vars

\* the best accuracy was attained by two epochs, later parameters exist,
\* and the final evaluation scored above the stored best
C10_Witness ==
    /\ pc = "done"
    /\ Gt(best_accuracy, Zero)
    /\ \E j, k \in 1..Len(TrainEvals) :
          /\ j < k
          /\ TrainEvals[j].accuracy = best_accuracy
          /\ TrainEvals[k].accuracy = best_accuracy
          /\ ckpt.model = TrainEvals[j].model
          /\ ckpt.model < model
    /\ Gt(Last(evalLog).accuracy, best_accuracy)
=============================================================================
